---- MODULE Spec2Model ----
(***************************************************************************)
(* requestatron: normalisation of Kubernetes CPU / memory quantities and   *)
(* the per-container aggregation of requests, limits, usage and ratios,    *)
(* modelled from src/requestatron/main.py.                                 *)
(*                                                                         *)
(* Python values are tagged records [t, s, n]:                             *)
(*   t = "None"              the value None                                *)
(*   t = "str",   s = chars  a string, as the sequence of its characters   *)
(*   t = "int",   n = k      the integer k                                 *)
(*   t = "float", n = k      the float k / 2^20 (every float the program   *)
(*                           computes from a quantity is k / (1024*1024))  *)
(*   t = an exception name   the call raised that exception                *)
(***************************************************************************)
EXTENDS Integers, Sequences, FiniteSets, TLC

VARIABLES
    arg,          \* the value handed to a parser called on its own
    fn,           \* which parser was called on it, "none" before the call
    ret,          \* what that call returned or raised
    pc,           \* position of main(): "pods" | "spec" | "usage" | "done" | "aborted"
    cur,          \* number of pods of pods.items taken so far; the current pod
    ui,           \* index of the next entry of podmetrics['containers']
    nContainers,  \* containers seen so far, all pods together
    specIn,       \* pod.spec.containers of each pod taken, as far as iterated
    metricsIn,    \* the metrics API's answer for each pod asked
    output,       \* the dict output: namespace -> pod -> container -> record
    fault,        \* the uncaught exception that ended main(), or "none"
    rendered      \* what was printed

parseVars == <<arg, fn, ret>>
mainVars  == <<pc, cur, ui, nContainers, specIn, metricsIn, output,
               fault, rendered>>
vars      == <<arg, fn, ret, pc, cur, ui, nContainers, specIn,
               metricsIn, output, fault, rendered>>

----------------------------------------------------------------------------
(* Bounds *)

\* longest generic string handed to the parsers
MaxLen == 3
\* containers listed by the pods of one run, all pods together
MaxContainers == 2

----------------------------------------------------------------------------
(* Python values *)

None == [t |-> "None", s |-> <<>>, n |-> 0]

StrVal(chars) == [t |-> "str", s |-> chars, n |-> 0]

IntVal(k) == [t |-> "int", s |-> <<>>, n |-> k]

\* the float k / (1024 * 1024)
FloatVal(k) == [t |-> "float", s |-> <<>>, n |-> k]

Raised(e) == [t |-> e, s |-> <<>>, n |-> 0]

Exceptions == {"ValueError", "AttributeError", "TypeError", "KeyError",
               "ZeroDivisionError"}

IsRaised(v) == v.t \in Exceptions

IsNumber(v) == v.t \in {"int", "float"}

\* Python truth value: None, '', 0 and 0.0 are falsy
Truthy(v) ==
    CASE v.t = "None"  -> FALSE
      [] v.t = "str"   -> v.s /= <<>>
      [] v.t = "int"   -> v.n /= 0
      [] v.t = "float" -> v.n /= 0
      [] OTHER         -> FALSE

Digits == {"0", "1", "2", "3", "4", "5", "6", "7", "8", "9"}

DigitVal == ("0" :> 0) @@ ("1" :> 1) @@ ("2" :> 2) @@ ("3" :> 3) @@ ("4" :> 4)
            @@ ("5" :> 5) @@ ("6" :> 6) @@ ("7" :> 7) @@ ("8" :> 8) @@ ("9" :> 9)

\* division rounding toward zero, b > 0 (Python's int() of a float quotient)
TruncDiv(a, b) == IF a >= 0 THEN a \div b ELSE -((-a) \div b)

\* str.endswith(suffix)
EndsWith(chars, suffix) ==
    /\ Len(chars) >= Len(suffix)
    /\ SubSeq(chars, Len(chars) - Len(suffix) + 1, Len(chars)) = suffix

\* str.replace(old, ''): every occurrence of old is removed, left to right
RECURSIVE Replace(_, _)
Replace(chars, old) ==
    IF Len(chars) < Len(old) THEN chars
    ELSE IF SubSeq(chars, 1, Len(old)) = old
         THEN Replace(SubSeq(chars, Len(old) + 1, Len(chars)), old)
         ELSE <<Head(chars)>> \o Replace(Tail(chars), old)

RECURSIVE DecimalValue(_)
DecimalValue(ds) ==
    IF ds = <<>> THEN 0
    ELSE 10 * DecimalValue(SubSeq(ds, 1, Len(ds) - 1)) + DigitVal[ds[Len(ds)]]

\* int(str): an optional sign and at least one decimal digit, else ValueError
PyInt(chars) ==
    LET signed == chars /= <<>> /\ Head(chars) \in {"-", "+"}
        ds     == IF signed THEN Tail(chars) ELSE chars
    IN  IF ds /= <<>> /\ \A i \in 1..Len(ds) : ds[i] \in Digits
        THEN IntVal(IF signed /\ Head(chars) = "-" THEN -DecimalValue(ds)
                 ELSE DecimalValue(ds))
        ELSE Raised("ValueError")

----------------------------------------------------------------------------
(* Quantity parsers: a branch takes int(...) of the stripped string and lets *)
(* its ValueError through                                                  *)

MemKi(i) == IF IsRaised(i) THEN i ELSE IntVal(i.n)

\* Mi taken as the decimal multiple
MemMiDecimal(i) == IF IsRaised(i) THEN i ELSE IntVal(1000 * i.n)

MemMi(i) == IF IsRaised(i) THEN i ELSE IntVal(1024 * i.n)

MemGi(i) == IF IsRaised(i) THEN i ELSE IntVal(1024 * 1024 * i.n)

parse_memory(memory_string) ==
    IF Truthy(memory_string)
    THEN IF memory_string.t /= "str" THEN Raised("AttributeError")
         ELSE IF EndsWith(memory_string.s, <<"K", "i">>)
              THEN MemKi(PyInt(Replace(memory_string.s, <<"K", "i">>)))
         ELSE IF EndsWith(memory_string.s, <<"M", "i">>)
              THEN MemMi(PyInt(Replace(memory_string.s, <<"M", "i">>)))
         ELSE IF EndsWith(memory_string.s, <<"G", "i">>)
              THEN MemGi(PyInt(Replace(memory_string.s, <<"G", "i">>)))
         ELSE PyInt(memory_string.s)
    ELSE memory_string

CpuMilli(i) == IF IsRaised(i) THEN i ELSE IntVal(i.n)

\* the quotient rounded down (//) instead of toward zero
CpuMicroFloored(i) == IF IsRaised(i) THEN i ELSE IntVal(i.n \div 1024)

CpuMicro(i) == IF IsRaised(i) THEN i ELSE IntVal(TruncDiv(i.n, 1024))

CpuNano(i) == IF IsRaised(i) THEN i ELSE FloatVal(i.n)

CpuCores(i) == IF IsRaised(i) THEN i ELSE IntVal(1024 * i.n)

parse_cpu(cpustring) ==
    IF Truthy(cpustring)
    THEN IF cpustring.t /= "str" THEN Raised("AttributeError")
         ELSE IF EndsWith(cpustring.s, <<"m">>)
              THEN CpuMilli(PyInt(Replace(cpustring.s, <<"m">>)))
         ELSE IF EndsWith(cpustring.s, <<"u">>)
              THEN CpuMicro(PyInt(Replace(cpustring.s, <<"u">>)))
         ELSE IF EndsWith(cpustring.s, <<"n">>)
              THEN CpuNano(PyInt(Replace(cpustring.s, <<"n">>)))
         ELSE CpuCores(PyInt(cpustring.s))
    ELSE cpustring

----------------------------------------------------------------------------
(* Dictionaries *)

EmptyDict == <<>>

\* dict.get(key): None when the key is missing
Get(d, key) == IF key \in DOMAIN d THEN d[key] ELSE None

\* d[key] = value
Put(d, key, value) ==
    [x \in DOMAIN d \cup {key} |-> IF x = key THEN value ELSE d[x]]

----------------------------------------------------------------------------
(* The cluster: what the Kubernetes API hands to main() *)

\* pods.items, in the order the API lists them (grouped by namespace, so it
\* is also the order in which the dict output first sees each key)
PodList == << [namespace |-> "ns1", name |-> "web-0"],
              [namespace |-> "ns1", name |-> "web-1"],
              [namespace |-> "ns2", name |-> "web-0"],
              [namespace |-> "ns2", name |-> "web-1"] >>

\* the name of the i-th container of pod.spec.containers
ContainerNames == <<"app", "db", "cache", "proxy">>

\* a container the metrics API reports and pod.spec.containers does not list
\* (an init or ephemeral container)
UnlistedContainer == "sidecar"

Chars(cs) == StrVal(cs)

Cpu500m == Chars(<<"5", "0", "0", "m">>)

Cpu250m == Chars(<<"2", "5", "0", "m">>)

Cpu500u == Chars(<<"5", "0", "0", "u">>)

Mem1Mi == Chars(<<"1", "M", "i">>)

Mem512Ki == Chars(<<"5", "1", "2", "K", "i">>)

Mem0 == Chars(<<"0">>)

\* container.resources: has = FALSE is resources None; an empty dict stands
\* for limits / requests that are None or {}, which the code treats alike.
\* The quantities are well-formed and not negative, as the API server admits
\* them.
ResourceChoices ==
    { [has |-> FALSE, limits |-> EmptyDict, requests |-> EmptyDict],
      [has |-> TRUE,  limits |-> EmptyDict, requests |-> EmptyDict],
      [has |-> TRUE,  limits |-> [cpu |-> Cpu500m], requests |-> [cpu |-> Cpu250m]],
      [has |-> TRUE,  limits |-> [cpu |-> Cpu500m, memory |-> Mem1Mi],
                      requests |-> EmptyDict],
      [has |-> TRUE,  limits |-> [memory |-> Mem0],
                      requests |-> [cpu |-> Cpu500u, memory |-> Mem512Ki]],
      [has |-> TRUE,  limits |-> EmptyDict,
                      requests |-> [cpu |-> Cpu250m, memory |-> Mem512Ki]] }

\* container['usage'] of the metrics API: cpu in n, memory in Ki
UsageChoices ==
    { [cpu |-> Chars(<<"1","2","5","0","0","0","0","0","0","n">>),
       memory |-> Chars(<<"7","6","8","K","i">>)],
      [cpu |-> Chars(<<"2","6","2","1","4","4","0","n">>),
       memory |-> Chars(<<"0","K","i">>)] }

UnlistedUsage == [cpu |-> Chars(<<"1","0","0","0","n">>), memory |-> Chars(<<"6","4","K","i">>)]

\* the lists podmetrics['containers'] can be for a pod with these containers:
\* each listed container reported or not, then possibly the unlisted one
RECURSIVE UsageLists(_)
UsageLists(names) ==
    IF names = <<>>
    THEN { <<>>, << [name |-> UnlistedContainer, usage |-> UnlistedUsage] >> }
    ELSE LET rest == UsageLists(Tail(names))
         IN  rest \cup { << [name |-> Head(names), usage |-> u] >> \o r :
                           u \in UsageChoices, r \in rest }

----------------------------------------------------------------------------
(* Aggregation *)

\* floor(100 * k / 2^20) for k >= 0, kept within 32 bits
Hundredfold(k) == 100 * (k \div 1048576) + (100 * (k % 1048576)) \div 1048576

\* the usage truncated to whole units before the ratio is taken
RatioOfTruncatedUsage(usage, denominator) ==
    IF ~IsNumber(usage) \/ ~IsNumber(denominator) THEN Raised("TypeError")
    ELSE IF denominator.n = 0 THEN Raised("ZeroDivisionError")
    ELSE IF usage.t = "float" /\ denominator.t = "int"
         THEN IntVal(TruncDiv(100 * (usage.n \div 1048576), denominator.n))
    ELSE IntVal(TruncDiv(100 * usage.n, denominator.n))

\* int(100 * usage / denominator): a usage that is no number makes
\* 100 * usage / ... a TypeError, a zero denominator a ZeroDivisionError.
\* Quantities are not negative; the quotient is taken exactly.
Ratio(usage, denominator) ==
    IF ~IsNumber(usage) \/ ~IsNumber(denominator) THEN Raised("TypeError")
    ELSE IF denominator.n = 0 THEN Raised("ZeroDivisionError")
    ELSE IF usage.t = denominator.t
         THEN IntVal(TruncDiv(100 * usage.n, denominator.n))
    ELSE IF usage.t = "float"
         THEN IntVal(TruncDiv(Hundredfold(usage.n), denominator.n))
    ELSE IntVal(TruncDiv(100 * usage.n * 1048576, denominator.n))

\* lines 102-106: the limits block
WithLimits(rec, resources) ==
    IF resources.has /\ resources.limits /= EmptyDict
    THEN Put(Put(rec, "cpu_limits", parse_cpu(Get(resources.limits, "cpu"))),
             "memory_limits", parse_memory(Get(resources.limits, "memory")))
    ELSE rec

\* lines 107-109: the requests block
WithRequests(rec, resources) ==
    IF resources.has /\ resources.requests /= EmptyDict
    THEN Put(Put(rec, "cpu_requests", parse_cpu(Get(resources.requests, "cpu"))),
             "memory_requests", parse_memory(Get(resources.requests, "memory")))
    ELSE rec

\* lines 100-109: the record of one container of pod.spec.containers
SpecRecord(resources) == WithRequests(WithLimits(EmptyDict, resources), resources)

\* lines 118-120
WithUsage(rec, usage) ==
    Put(Put(rec, "memory_usage", parse_memory(usage.memory)),
        "cpu_usage", parse_cpu(usage.cpu))

\* the denominator tested with "is not None" instead of for truth
WithRatioIfNotNone(rec, usageField, denominatorField, ratioField) ==
    IF Get(rec, denominatorField).t /= "None"
    THEN Put(rec, ratioField, Ratio(rec[usageField], rec[denominatorField]))
    ELSE rec

\* one of the four ifs of lines 123-133
WithRatio(rec, usageField, denominatorField, ratioField) ==
    IF Truthy(Get(rec, denominatorField))
    THEN Put(rec, ratioField, Ratio(rec[usageField], rec[denominatorField]))
    ELSE rec

\* lines 118-133: the record after one entry of podmetrics['containers']
UsageRecord(rec, usage) ==
    LET r0 == WithUsage(rec, usage)
        r1 == WithRatio(r0, "cpu_usage", "cpu_requests", "cpu_requests_ratio")
        r2 == WithRatio(r1, "cpu_usage", "cpu_limits", "cpu_limits_ratio")
        r3 == WithRatio(r2, "memory_usage", "memory_requests", "memory_requests_ratio")
    IN  WithRatio(r3, "memory_usage", "memory_limits", "memory_limits_ratio")

\* the fields of a record in the order main() assigns them
AssignOrder == << "cpu_limits", "memory_limits", "cpu_requests", "memory_requests",
                  "memory_usage", "cpu_usage", "cpu_requests_ratio",
                  "cpu_limits_ratio", "memory_requests_ratio",
                  "memory_limits_ratio" >>

\* position in AssignOrder of the first assignment whose right-hand side
\* raised; Len(AssignOrder) + 1 if none did
FirstRaised(rec) ==
    LET bad == { i \in 1..Len(AssignOrder) :
                   AssignOrder[i] \in DOMAIN rec /\ IsRaised(rec[AssignOrder[i]]) }
    IN  IF bad = {} THEN Len(AssignOrder) + 1
        ELSE CHOOSE i \in bad : \A j \in bad : i <= j

\* the exception that assignment raised, "none" if none did
RaisedIn(rec) ==
    IF FirstRaised(rec) > Len(AssignOrder) THEN "none"
    ELSE rec[AssignOrder[FirstRaised(rec)]].t

\* the record as the assignments before the raising one left it
Assigned(rec) ==
    [f \in { AssignOrder[i] : i \in 1..(FirstRaised(rec) - 1) } \cap DOMAIN rec
       |-> rec[f]]

\* lines 99-109 for one container: output[ns][pod] afterwards and the
\* exception raised, if any
SpecStep(podDict, name, resources) ==
    LET rec == SpecRecord(resources)
    IN  [fault |-> RaisedIn(rec), pod |-> Put(podDict, name, Assigned(rec))]

\* lines 116-133 for one entry of podmetrics['containers']: line 118 computes
\* its right-hand side, then looks the container up in output[ns][pod]
UsageStep(podDict, entry) ==
    LET first == parse_memory(entry.usage.memory)
    IN  IF IsRaised(first) THEN [fault |-> first.t, pod |-> podDict]
        ELSE IF entry.name \notin DOMAIN podDict
        THEN [fault |-> "KeyError", pod |-> podDict]
        ELSE LET rec == UsageRecord(podDict[entry.name], entry.usage)
             IN  [fault |-> RaisedIn(rec),
                  pod |-> Put(podDict, entry.name, Assigned(rec))]

----------------------------------------------------------------------------
(* Rendering *)

Columns == << "cpu_requests", "cpu_limits", "cpu_usage", "cpu_requests_ratio",
              "cpu_limits_ratio", "memory_requests", "memory_limits",
              "memory_usage", "memory_requests_ratio", "memory_limits_ratio" >>

DigitChar == <<"0", "1", "2", "3", "4", "5", "6", "7", "8", "9">>

RECURSIVE NatToStr(_)
NatToStr(k) ==
    IF k < 10 THEN <<DigitChar[k + 1]>>
    ELSE NatToStr(k \div 10) \o <<DigitChar[(k % 10) + 1]>>

\* str(k) of an integer
IntToStr(k) == IF k < 0 THEN <<"-">> \o NatToStr(-k) ELSE NatToStr(k)

\* what an f-string prints for a value; the digits Python prints for a float
\* are not expanded, the float stands for its own text
Format(v) ==
    CASE v.t = "None"  -> StrVal(<<"N", "o", "n", "e">>)
      [] v.t = "int"   -> StrVal(IntToStr(v.n))
      [] OTHER         -> v

\* {rec.get(column, '')} of line 143
Cell(rec, column) ==
    Format(IF column \in DOMAIN rec THEN rec[column] ELSE StrVal(<<>>))

\* json.dumps of one value: None is printed as null
JsonValue(v) ==
    CASE v.t = "None" -> [json |-> "null", v |-> None]
      [] v.t = "str"  -> [json |-> "string", v |-> v]
      [] OTHER        -> [json |-> "number", v |-> v]

\* json.dumps(output): every key of every dict is printed
RenderJson(out) ==
    [ns \in DOMAIN out |->
       [pod \in DOMAIN out[ns] |->
          [c \in DOMAIN out[ns][pod] |->
             [f \in DOMAIN out[ns][pod][c] |-> JsonValue(out[ns][pod][c][f])]]]]

\* lines 140-143: the rows of one pod, its containers in insertion order
RECURSIVE PodRows(_, _, _)
PodRows(out, p, i) ==
    IF i > Len(ContainerNames)
       \/ ContainerNames[i] \notin DOMAIN out[PodList[p].namespace][PodList[p].name]
    THEN <<>>
    ELSE << [namespace |-> PodList[p].namespace, pod |-> PodList[p].name,
             container |-> ContainerNames[i],
             cells |-> [k \in 1..Len(Columns) |->
                          Cell(out[PodList[p].namespace][PodList[p].name][ContainerNames[i]],
                               Columns[k])]] >>
         \o PodRows(out, p, i + 1)

RECURSIVE CsvRows(_, _, _)
CsvRows(out, p, n) ==
    IF p > n THEN <<>> ELSE PodRows(out, p, 1) \o CsvRows(out, p + 1, n)

\* lines 139-143: the header line, then one row per container
RenderCsv(out, n) == [header |-> Columns, rows |-> CsvRows(out, 1, n)]

----------------------------------------------------------------------------
(* main() *)

NotPrinted == [format |-> "none"]

\* args.output, line 72
OutputChoices == {"json", "csv"}

Init ==
    /\ arg = None /\ fn = "none" /\ ret = None
    /\ pc = "pods"
    /\ cur = 0
    /\ ui = 0
    /\ nContainers = 0
    /\ specIn = <<>>
    /\ metricsIn = <<>>
    /\ output = EmptyDict
    /\ fault = "none"
    /\ rendered = NotPrinted

CurNs == PodList[cur].namespace

CurPod == PodList[cur].name

\* lines 89-96: the next pod of pods.items
BeginPod ==
    /\ pc = "pods"
    /\ cur < Len(PodList)
    /\ nContainers < MaxContainers
    /\ cur' = cur + 1
    /\ LET ns == PodList[cur + 1].namespace
           o1 == IF ns \in DOMAIN output THEN output ELSE Put(output, ns, EmptyDict)
       IN  output' = Put(o1, ns, Put(o1[ns], PodList[cur + 1].name, EmptyDict))
    /\ specIn' = Append(specIn, <<>>)
    /\ pc' = "spec"
    /\ UNCHANGED <<ui, nContainers, metricsIn, fault, rendered, parseVars>>

\* lines 99-109: the next container of pod.spec.containers
SpecContainer ==
    /\ pc = "spec"
    /\ nContainers < MaxContainers
    /\ Len(specIn[cur]) < Len(ContainerNames)
    /\ \E resources \in ResourceChoices :
         LET name == ContainerNames[Len(specIn[cur]) + 1]
             step == SpecStep(output[CurNs][CurPod], name, resources)
         IN  /\ specIn' = [specIn EXCEPT
                             ![cur] = Append(@, [name |-> name, resources |-> resources])]
             /\ output' = Put(output, CurNs, Put(output[CurNs], CurPod, step.pod))
             /\ fault' = step.fault
             /\ pc' = IF step.fault = "none" THEN "spec" ELSE "aborted"
    /\ nContainers' = nContainers + 1
    /\ UNCHANGED <<cur, ui, metricsIn, rendered, parseVars>>

\* the except branch drops the pod's records before it continues
MetricsUnavailableDropsPod ==
    /\ pc = "spec"
    /\ Len(specIn[cur]) >= 1
    /\ metricsIn' = Append(metricsIn, [ok |-> FALSE, containers |-> <<>>])
    /\ output' = Put(output, PodList[cur].namespace,
                     Put(output[PodList[cur].namespace], PodList[cur].name, EmptyDict))
    /\ pc' = "pods"
    /\ UNCHANGED <<cur, ui, nContainers, specIn, fault, rendered, parseVars>>

\* lines 112-115: the metrics API raises ApiException, the pod is skipped
MetricsUnavailable ==
    /\ pc = "spec"
    /\ Len(specIn[cur]) >= 1
    /\ metricsIn' = Append(metricsIn, [ok |-> FALSE, containers |-> <<>>])
    /\ pc' = "pods"
    /\ UNCHANGED <<cur, ui, nContainers, specIn, output, fault, rendered, parseVars>>

SpecNames == [i \in 1..Len(specIn[cur]) |-> specIn[cur][i].name]

\* lines 112-113, 116: the metrics API answers
MetricsFetched ==
    /\ pc = "spec"
    /\ Len(specIn[cur]) >= 1
    /\ \E containers \in UsageLists(SpecNames) :
         /\ metricsIn' = Append(metricsIn, [ok |-> TRUE, containers |-> containers])
         /\ pc' = IF containers = <<>> THEN "pods" ELSE "usage"
    /\ ui' = 1
    /\ UNCHANGED <<cur, nContainers, specIn, output, fault, rendered, parseVars>>

\* lines 116-133: the next entry of podmetrics['containers']
UsageContainer ==
    /\ pc = "usage"
    /\ LET step == UsageStep(output[CurNs][CurPod], metricsIn[cur].containers[ui])
       IN  /\ output' = Put(output, CurNs, Put(output[CurNs], CurPod, step.pod))
           /\ fault' = step.fault
           /\ pc' = IF step.fault /= "none" THEN "aborted"
                    ELSE IF ui < Len(metricsIn[cur].containers) THEN "usage"
                    ELSE "pods"
    /\ ui' = ui + 1
    /\ UNCHANGED <<cur, nContainers, specIn, metricsIn, rendered, parseVars>>

\* lines 135-143: pods.items is exhausted, the report is printed
Render ==
    /\ pc = "pods"
    /\ \E fmt \in OutputChoices :
         rendered' = IF fmt = "json"
                     THEN [format |-> "json", doc |-> RenderJson(output)]
                     ELSE [format |-> "csv", doc |-> RenderCsv(output, cur)]
    /\ pc' = "done"
    /\ UNCHANGED <<cur, ui, nContainers, specIn, metricsIn, output, fault, parseVars>>

Next ==
    \/ BeginPod
    \/ SpecContainer
    \/ MetricsUnavailable
    \/ MetricsFetched
    \/ UsageContainer
    \/ Render

Spec == Init /\ [][Next]_vars

----------------------------------------------------------------------------
(* The parsers called on their own *)

ParseAlphabet == {"0", "2", "5", "-", "m", "u", "n", "K", "M", "G", "i"}

StringsUpTo(len) == UNION { [1..k -> ParseAlphabet] : k \in 0..len }

\* the quantities of the documentation's examples, longer than MaxLen
ExampleStrings ==
    { <<"2","5","0","m">>, <<"5","0","0","0","0","0","u">>,
      <<"1","0","0","0","0","0","0","0","0","0","n">>,
      <<"1","2","5","0","0","0","0","0","0","n">>,
      <<"-","1","5","0","0","u">>, <<"2","0","4","8","u">>,
      <<"5","1","2","K","i">>, <<"2","0","4","8","M","i">>, <<"2","5","0","0">> }

NonStrings == { None, IntVal(0), IntVal(5), IntVal(250), FloatVal(0),
                FloatVal(1572864) }

ParseInputs ==
    { StrVal(cs) : cs \in StringsUpTo(MaxLen) \cup ExampleStrings } \cup NonStrings

InitParse ==
    /\ arg \in ParseInputs /\ fn = "none" /\ ret = None
    /\ pc = "pods"
    /\ cur = 0
    /\ ui = 0
    /\ nContainers = 0
    /\ specIn = <<>>
    /\ metricsIn = <<>>
    /\ output = EmptyDict
    /\ fault = "none"
    /\ rendered = NotPrinted

CallParseCpu ==
    /\ fn = "none"
    /\ fn' = "parse_cpu"
    /\ ret' = parse_cpu(arg)
    /\ UNCHANGED <<arg, mainVars>>

CallParseMemory ==
    /\ fn = "none"
    /\ fn' = "parse_memory"
    /\ ret' = parse_memory(arg)
    /\ UNCHANGED <<arg, mainVars>>

NextParse == CallParseCpu \/ CallParseMemory

SpecParse == InitParse /\ [][NextParse]_vars

----------------------------------------------------------------------------
(* Properties of the parsers, checked under SpecParse *)

\* an absent quantity: None, or the empty string the parsers hand back as it is
IsAbsent(v) == v.t = "None" \/ (v.t = "str" /\ v.s = <<>>)

\* a decimal integer, possibly negative
SignedDigits(cs) ==
    LET ds == IF cs /= <<>> /\ Head(cs) = "-" THEN Tail(cs) ELSE cs
    IN  ds /= <<>> /\ \A i \in 1..Len(ds) : ds[i] \in Digits

SignedValue(cs) ==
    IF Head(cs) = "-" THEN -DecimalValue(Tail(cs)) ELSE DecimalValue(cs)

\* r is k / d rounded toward zero
TruncatedQuotient(r, k, d) ==
    IF k >= 0 THEN r >= 0 /\ d * r <= k /\ k < d * (r + 1)
    ELSE r <= 0 /\ d * r >= k /\ k > d * (r - 1)

CpuSuffix(cs) ==
    IF cs /= <<>> /\ cs[Len(cs)] \in {"m", "u", "n"} THEN cs[Len(cs)] ELSE ""

CpuBody(cs) == IF CpuSuffix(cs) = "" THEN cs ELSE SubSeq(cs, 1, Len(cs) - 1)

MemorySuffix(cs) ==
    IF Len(cs) >= 2 /\ cs[Len(cs)] = "i" /\ cs[Len(cs) - 1] \in {"K", "M", "G"}
    THEN cs[Len(cs) - 1] ELSE ""

MemoryBody(cs) == IF MemorySuffix(cs) = "" THEN cs ELSE SubSeq(cs, 1, Len(cs) - 2)

\* C7: parse_cpu maps every well-formed string to milli-units by its suffix:
\* 'm' leaves the integer unchanged, 'u' divides by 1024 and truncates toward
\* zero to an integer, 'n' divides by 1024*1024 without truncation, a plain
\* integer is multiplied by 1024; absent or empty input yields absent; and
\* parse_cpu("250m") = 250, parse_cpu("500000u") = 488, parse_cpu("2") = 2048.
ParseCpuBySuffix ==
    fn = "parse_cpu" =>
      /\ IsAbsent(arg) => IsAbsent(ret)
      /\ (arg.t = "str" /\ SignedDigits(CpuBody(arg.s))) =>
           LET k == SignedValue(CpuBody(arg.s))
           IN  CASE CpuSuffix(arg.s) = "m" -> ret = IntVal(k)
                 [] CpuSuffix(arg.s) = "u" ->
                      ret.t = "int" /\ TruncatedQuotient(ret.n, k, 1024)
                 [] CpuSuffix(arg.s) = "n" -> ret = FloatVal(k)
                 [] OTHER -> ret = IntVal(1024 * k)
      /\ arg = StrVal(<<"2","5","0","m">>) => ret = IntVal(250)
      /\ arg = StrVal(<<"5","0","0","0","0","0","u">>) => ret = IntVal(488)
      /\ arg = StrVal(<<"2">>) => ret = IntVal(2048)

\* parse_cpu("500000u") was called and gave 488
ParseCpuWitness ==
    /\ fn = "parse_cpu"
    /\ arg = StrVal(<<"5","0","0","0","0","0","u">>)
    /\ ret = IntVal(488)

\* C8: parse_memory maps every well-formed string to KiB by its suffix: 'Ki'
\* leaves the integer unchanged, 'Mi' multiplies by 1024, 'Gi' by 1024*1024,
\* a plain integer is taken as KiB; absent or empty input yields absent, and a
\* parsed zero ("0Ki", "0") is the number 0, not absent.
ParseMemoryBySuffix ==
    fn = "parse_memory" =>
      /\ IsAbsent(arg) => IsAbsent(ret)
      /\ (arg.t = "str" /\ SignedDigits(MemoryBody(arg.s))) =>
           LET k == SignedValue(MemoryBody(arg.s))
           IN  /\ ~IsAbsent(ret)
               /\ CASE MemorySuffix(arg.s) = "K" -> ret = IntVal(k)
                    [] MemorySuffix(arg.s) = "M" -> ret = IntVal(1024 * k)
                    [] MemorySuffix(arg.s) = "G" -> ret = IntVal(1024 * 1024 * k)
                    [] OTHER -> ret = IntVal(k)
      /\ arg = StrVal(<<"5","1","2","K","i">>) => ret = IntVal(512)
      /\ arg \in {StrVal(<<"0","K","i">>), StrVal(<<"0">>)} => ret = IntVal(0)

\* parse_memory("2Gi") was called and gave 2097152
ParseMemoryWitness ==
    /\ fn = "parse_memory"
    /\ arg = StrVal(<<"2","G","i">>)
    /\ ret = IntVal(2097152)

\* C9: for every non-string numeric input, zero or not, parse_memory and
\* parse_cpu return the input unchanged and raise no error.
NonStringPassesThrough ==
    (fn /= "none" /\ arg.t \in {"int", "float"}) => ret = arg

----------------------------------------------------------------------------
(* Properties of the aggregation, checked under Spec *)

\* each ratio field with the usage and the denominator it is computed from
RatioTable ==
    { [ratio |-> "cpu_requests_ratio", usage |-> "cpu_usage",
       denominator |-> "cpu_requests"],
      [ratio |-> "cpu_limits_ratio", usage |-> "cpu_usage",
       denominator |-> "cpu_limits"],
      [ratio |-> "memory_requests_ratio", usage |-> "memory_usage",
       denominator |-> "memory_requests"],
      [ratio |-> "memory_limits_ratio", usage |-> "memory_usage",
       denominator |-> "memory_limits"] }

\* each spec-derived field with the place of its raw value in container.resources
SpecTable ==
    { [field |-> "cpu_limits", block |-> "limits", key |-> "cpu"],
      [field |-> "memory_limits", block |-> "limits", key |-> "memory"],
      [field |-> "cpu_requests", block |-> "requests", key |-> "cpu"],
      [field |-> "memory_requests", block |-> "requests", key |-> "memory"] }

\* the field is a key of the record and holds a number
Present(rec, field) == field \in DOMAIN rec /\ IsNumber(rec[field])

\* the records of the report
Records ==
    UNION { UNION { { output[ns][pod][c] : c \in DOMAIN output[ns][pod] } :
                    pod \in DOMAIN output[ns] } :
            ns \in DOMAIN output }

PodDict(p) == output[PodList[p].namespace][PodList[p].name]

\* C1: in the report of any run, each of the four ratio fields of a record is
\* present if and only if its usage field and its denominator field are both
\* present and the denominator is not zero; and a zero denominator never makes
\* the run end in a division fault.
RatioPresence ==
    /\ fault /= "ZeroDivisionError"
    /\ pc = "done" =>
         \A rec \in Records : \A row \in RatioTable :
            (row.ratio \in DOMAIN rec)
              <=> /\ Present(rec, row.usage)
                  /\ Present(rec, row.denominator)
                  /\ rec[row.denominator].n /= 0

\* a report with a record whose usage is present, whose memory limit is the
\* number 0 and has no ratio, and whose memory request has one
RatioPresenceWitness ==
    /\ pc = "done"
    /\ \E rec \in Records :
         /\ Present(rec, "memory_usage")
         /\ Present(rec, "memory_limits") /\ rec["memory_limits"].n = 0
         /\ "memory_limits_ratio" \notin DOMAIN rec
         /\ "memory_requests_ratio" \in DOMAIN rec

\* C2: if the metrics API raised ApiException for a pod, every container of
\* that pod has in the final report no cpu_usage, no memory_usage and none of
\* the four ratios, while the spec-derived fields whose raw value the pod
\* declares are populated; and the containers the API reported for any other
\* pod have their usage.
UnavailableLeavesSpecOnly ==
    pc = "done" =>
      \A p \in 1..Len(metricsIn) :
         IF metricsIn[p].ok
         THEN \A k \in 1..Len(metricsIn[p].containers) :
                 LET name == metricsIn[p].containers[k].name
                 IN  /\ name \in DOMAIN PodDict(p)
                     /\ Present(PodDict(p)[name], "cpu_usage")
                     /\ Present(PodDict(p)[name], "memory_usage")
         ELSE \A i \in 1..Len(specIn[p]) :
                 /\ specIn[p][i].name \in DOMAIN PodDict(p)
                 /\ LET rec == PodDict(p)[specIn[p][i].name]
                        res == specIn[p][i].resources
                    IN  /\ "cpu_usage" \notin DOMAIN rec
                        /\ "memory_usage" \notin DOMAIN rec
                        /\ \A row \in RatioTable : row.ratio \notin DOMAIN rec
                        /\ \A row \in SpecTable :
                             row.key \in DOMAIN res[row.block]
                               => Present(rec, row.field)

\* a report of two pods: metrics unavailable for one that declares limits,
\* usage reported for the other
UnavailableWitness ==
    /\ pc = "done"
    /\ \E p, q \in 1..Len(metricsIn) :
         /\ ~metricsIn[p].ok
         /\ specIn[p][1].resources.limits /= EmptyDict
         /\ metricsIn[q].ok
         /\ metricsIn[q].containers /= <<>>

\* C3: for every input (any pods, well-formed raw values, any metrics answer)
\* the run reaches the render step; no aggregation step aborts it.
RunNeverAborts == pc /= "aborted"

RECURSIVE UsageSteps(_, _)
UsageSteps(state, entries) ==
    IF entries = <<>> \/ state.fault /= "none" THEN state
    ELSE UsageSteps(UsageStep(state.pod, Head(entries)), Tail(entries))

RECURSIVE SpecSteps(_, _)
SpecSteps(state, containers) ==
    IF containers = <<>> \/ state.fault /= "none" THEN state
    ELSE SpecSteps(SpecStep(state.pod, Head(containers).name,
                            Head(containers).resources),
                   Tail(containers))

\* the pod's records when its usage entries are merged before its spec
UsageBeforeSpec(p) ==
    SpecSteps(UsageSteps([fault |-> "none", pod |-> EmptyDict],
                         metricsIn[p].containers),
              specIn[p])

\* C4: merging the usage records of a pod's containers before their spec
\* records yields the same final records as merging spec before usage.
OrderIndependent ==
    pc = "done" =>
      \A p \in 1..Len(metricsIn) :
         metricsIn[p].ok =>
           UsageBeforeSpec(p) = [fault |-> "none", pod |-> PodDict(p)]

ColumnOf(field) == CHOOSE k \in 1..Len(Columns) : Columns[k] = field

\* C5: a spec field whose raw value the source does not provide is no key of
\* the record (also when its sibling in the same block is set), so the
\* structured output omits it and the tabular output prints an empty string.
AbsentFieldsOmitted ==
    \A p \in 1..Len(specIn) : \A i \in 1..Len(specIn[p]) :
       LET name == specIn[p][i].name
           res  == specIn[p][i].resources
       IN  \A row \in SpecTable :
              row.key \notin DOMAIN res[row.block] =>
                /\ row.field \notin DOMAIN PodDict(p)[name]
                /\ rendered.format = "json" =>
                     row.field \notin DOMAIN
                       rendered.doc[PodList[p].namespace][PodList[p].name][name]
                /\ rendered.format = "csv" =>
                     \A j \in 1..Len(rendered.doc.rows) :
                        LET r == rendered.doc.rows[j]
                        IN  (/\ r.namespace = PodList[p].namespace
                             /\ r.pod = PodList[p].name
                             /\ r.container = name)
                            => r.cells[ColumnOf(row.field)] = StrVal(<<>>)

\* floor(100 * v) for a number v >= 0
FloorHundredTimes(v) ==
    IF v.t = "int" THEN 100 * v.n
    ELSE 100 * (v.n \div 1048576) + (100 * (v.n % 1048576)) \div 1048576

\* r = floor(100 * usage / denominator), denominator a positive integer
IsFloorOfPercent(r, usage, denominator) ==
    /\ r * denominator.n <= FloorHundredTimes(usage)
    /\ FloorHundredTimes(usage) < (r + 1) * denominator.n

\* the container declares requests.cpu=250m, limits.cpu=500m and the metrics
\* API reports cpu=125000000n for it
IsExample(p, i) ==
    /\ Get(specIn[p][i].resources.requests, "cpu") = Cpu250m
    /\ Get(specIn[p][i].resources.limits, "cpu") = Cpu500m
    /\ p <= Len(metricsIn)
    /\ \E k \in 1..Len(metricsIn[p].containers) :
          /\ metricsIn[p].containers[k].name = specIn[p][i].name
          /\ metricsIn[p].containers[k].usage.cpu =
               Chars(<<"1","2","5","0","0","0","0","0","0","n">>)

\* C6: whenever a ratio field is present, it is floor(100 * usage /
\* denominator) of the record's normalized usage and denominator, the
\* fractional nano-CPU usage not truncated beforehand; requests.cpu=250m,
\* limits.cpu=500m, usage cpu=125000000n give cpu_requests=250,
\* cpu_limits=500, cpu_requests_ratio=47 and cpu_limits_ratio=23.
RatioIsFloor ==
    /\ \A rec \in Records : \A row \in RatioTable :
          row.ratio \in DOMAIN rec =>
            /\ rec[row.ratio].t = "int"
            /\ rec[row.denominator].t = "int"
            /\ IsFloorOfPercent(rec[row.ratio].n, rec[row.usage], rec[row.denominator])
    /\ pc = "done" =>
         \A p \in 1..Len(specIn) : \A i \in 1..Len(specIn[p]) :
            IsExample(p, i) =>
              LET rec == PodDict(p)[specIn[p][i].name]
              IN  /\ rec["cpu_requests"] = IntVal(250)
                  /\ rec["cpu_limits"] = IntVal(500)
                  /\ rec["cpu_requests_ratio"] = IntVal(47)
                  /\ rec["cpu_limits_ratio"] = IntVal(23)

\* a report holding the example's record, and one whose usage of 2.5 milli-CPU
\* against a request of 250 gives the ratio 1
RatioIsFloorWitness ==
    /\ pc = "done"
    /\ \E p \in 1..Len(specIn) : \E i \in 1..Len(specIn[p]) :
          /\ IsExample(p, i)
          /\ PodDict(p)[specIn[p][i].name]["cpu_requests_ratio"] = IntVal(47)
    /\ \E rec \in Records :
          /\ Get(rec, "cpu_usage") = FloatVal(2621440)
          /\ Get(rec, "cpu_requests_ratio") = IntVal(1)

\* the k-th entry of the metrics answer for pod p has been merged
Merged(p, k) == p < cur \/ pc \in {"pods", "done"} \/ k < ui

\* C10: for every container the metrics API reports for a pod, listed in
\* pod.spec.containers or not, a record exists under (namespace, pod,
\* container) with cpu_usage and memory_usage set, and the run does not fail
\* on the missing key.
UsageLookupOrInsert ==
    /\ fault /= "KeyError"
    /\ \A p \in 1..Len(metricsIn) : \A k \in 1..Len(metricsIn[p].containers) :
          Merged(p, k) =>
            LET name == metricsIn[p].containers[k].name
            IN  /\ name \in DOMAIN PodDict(p)
                /\ Present(PodDict(p)[name], "cpu_usage")
                /\ Present(PodDict(p)[name], "memory_usage")

====
